---- MODULE Spec2Model ----
(***************************************************************************)
(* Model of the single-file intake pipeline of src/process_one_file.py:    *)
(* FilesManager, MongoCommonCollections, FileParser, create_process_doc    *)
(* and process_next_file.  Python dicts are functions with string domains, *)
(* None is the value NoneV, an exception is a value naming the call that   *)
(* raised it.  Floating-point quotients are kept as pairs <<num, den>>.    *)
(* Logging calls (log_mgr.info / unexpected_err) are taken not to raise.   *)
(* The POST /ingest/events handler of src/app/routes.py, with the          *)
(* validator and the connection pool it uses, is modelled as SpecIngest.   *)
(***************************************************************************)
EXTENDS Integers, Sequences, FiniteSets, TLC

VARIABLES
    repo_exists,              \* os.path.exists(repo_path)
    repo_path,                \* entries of the pending directory
    ok_path,                  \* entries of the success directory
    err_path,                 \* entries of the error directory
    jobs,                     \* MongoCommonCollections.jobs
    job_counter,              \* MongoCommonCollections.job_counter
    now,                      \* datetime.now(), in microseconds
    runs,                     \* number of process_next_file invocations started
    run_no,                   \* per invocation: which invocation it is
    pc,                       \* per invocation: position in process_next_file
    reverse_time_order,       \* per invocation: argument
    file_to_proc,             \* per invocation: local
    local_err,                \* per invocation: local
    process_results_doc,      \* per invocation: local
    start_proc_file_time,     \* per invocation: local
    job_payload,              \* per invocation: local
    job_id,                   \* per invocation: local
    summary,                  \* per invocation: local
    ret,                      \* per invocation: local
    to_path,                  \* per invocation: local (which directory)
    moved,                    \* per invocation: value returned by move_file
    trace,                    \* per invocation: calls made so far, in order
    outcome,                  \* per invocation: "none", "running", "returned" or "raised"
    result,                   \* per invocation: value returned
    api_call,                 \* last direct call on the job store
    api_ret,                  \* value that call returned
    move_failed,              \* history: some move_file call has returned False
    request_json,             \* /ingest/events: request.json of the current request
    valid_events,             \* /ingest/events: local
    invalid_events,           \* /ingest/events: local
    inserted_count,           \* /ingest/events: local
    ingest_pc,                \* /ingest/events: position in ingest_events
    response,                 \* /ingest/events: value returned, or the exception raised
    pool_idle,                \* connections lying in connection_pool
    cursor_open,              \* the request's cursor exists and is not closed
    txn,                      \* rows inserted on the connection and not committed
    events_table,             \* committed rows of table events
    requests,                 \* number of requests started
    table_at_start,           \* history: events_table when the request started
    db_error                  \* history: a database call raised during the request

dirs   == <<repo_exists, repo_path, ok_path, err_path>>
store  == <<jobs, job_counter>>
locals == <<reverse_time_order, file_to_proc, local_err, process_results_doc,
            start_proc_file_time, job_payload, job_id, summary, ret, to_path,
            moved>>
api    == <<api_call, api_ret>>
web    == <<request_json, valid_events, invalid_events, inserted_count, ingest_pc,
            response, pool_idle, cursor_open, txn, events_table, requests,
            table_at_start, db_error>>
core   == <<dirs, store, now, runs, run_no, pc, locals, trace, outcome, result, api,
            move_failed>>
vars   == <<core, web>>

----------------------------------------------------------------------------
(* Bounds *)

MaxRuns == 2
MaxApiCalls == 4
MaxJobs == 2
MaxFiles == 2

Procs == {1, 2}

\* File names are strings: sequences of character codes.
FileNames == {<<1>>, <<1, 2>>, <<2>>}
\* A sub-directory of the pending directory; it sorts before every file.
DirNames == {<<0>>}

----------------------------------------------------------------------------
(* Python values *)

NoneV == [none |-> TRUE]

IsDict(v) == "none" \notin DOMAIN v

Exc(where) == [exc |-> where]

Put(d, k, v) == [x \in DOMAIN d \cup {k} |-> IF x = k THEN v ELSE d[x]]

Del(d, k) == [x \in DOMAIN d \ {k} |-> d[x]]

\* dict.update
DictUpdate(d, patch) ==
    [x \in DOMAIN d \cup DOMAIN patch |-> IF x \in DOMAIN patch THEN patch[x] ELSE d[x]]

\* datetime.isoformat / datetime.fromisoformat keep the microseconds
IsoFormat(t) == <<"iso", t>>

FromIsoFormat(s) == s[2]

\* os.path.join
PathJoin(dir, name) == <<dir, name>>

\* f"JOB_{n}"
JobIdOf(n) == <<"JOB", n>>

\* an entry of trace: the call and the error argument it was given
Call(name, err) == [call |-> name, error |-> err]

Count(seq, name) == Cardinality({i \in DOMAIN seq : seq[i].call = name})

----------------------------------------------------------------------------
(* FilesManager *)

Min2(a, b) == IF a < b THEN a ELSE b

StrLess_by_length(a, b) ==
    \/ Len(a) < Len(b)
    \/ /\ Len(a) = Len(b)
       /\ \E i \in 1..Len(a) :
             /\ a[i] < b[i]
             /\ \A j \in 1..(i - 1) : a[j] = b[j]

\* str.__lt__ : code-point order, a proper prefix sorts first
StrLess(a, b) ==
    \/ \E i \in 1..Min2(Len(a), Len(b)) :
          /\ a[i] < b[i]
          /\ \A j \in 1..(i - 1) : a[j] = b[j]
    \/ /\ Len(a) < Len(b)
       /\ \A j \in 1..Len(a) : a[j] = b[j]

IsFile_any(name) == TRUE

\* os.path.isfile
IsFile(name) == name \notin DirNames

\* files.sort(reverse=...)
RECURSIVE SortFiles(_, _)
SortFiles(files, reverse) ==
    IF files = {} THEN << >>
    ELSE LET first == CHOOSE f \in files :
                         \A g \in files \ {f} :
                            IF reverse THEN StrLess(g, f) ELSE StrLess(f, g)
         IN  <<first>> \o SortFiles(files \ {first}, reverse)

get_first_available_file(exists, entries, reverse) ==
    IF ~exists THEN NoneV
    ELSE LET files == {f \in entries : IsFile(f)}
         IN  IF files = {} THEN NoneV
             ELSE LET sorted == SortFiles(files, reverse)
                  IN  [file_name |-> sorted[1],
                       full_path |-> PathJoin("repo_path", sorted[1])]

get_first_available_file_claiming(exists, entries, reverse) ==
    IF get_first_available_file(exists, entries, reverse) = NoneV THEN entries
    ELSE entries \ {get_first_available_file(exists, entries, reverse).file_name}

\* get_first_available_file: the pending directory after the call; the
\* directory is listed, nothing is renamed or removed
get_first_available_file_dir(exists, entries, reverse) == entries

move_file_ret_ignoring_absence(src_exists, io_fault) == ~io_fault

\* move_file: value returned.  io_fault stands for os.makedirs / os.rename
\* raising inside the try block.
move_file_ret(src_exists, io_fault) ==
    IF io_fault THEN FALSE
    ELSE IF src_exists THEN TRUE
    ELSE FALSE

\* move_file: the directory a file leaves / enters
move_file_from(from, file_name, src_exists, io_fault) ==
    IF move_file_ret(src_exists, io_fault) THEN from \ {file_name} ELSE from

move_file_to(to, file_name, src_exists, io_fault) ==
    IF move_file_ret(src_exists, io_fault) THEN to \cup {file_name} ELSE to

\* clean_file_process_q is called when a file was selected
clean_file_process_q_called(file) == file # NoneV

----------------------------------------------------------------------------
(* MongoCommonCollections *)

create_job_counter_stuck(counter) == counter

create_job_counter(counter) == counter + 1

create_job_id(counter) == JobIdOf(create_job_counter(counter))

create_job_jobs(js, counter, payload) ==
    [x \in DOMAIN js \cup {create_job_id(counter)} |->
        IF x = create_job_id(counter) THEN payload ELSE js[x]]

update_job_jobs(js, id, payload) ==
    IF id \in DOMAIN js
    THEN [js EXCEPT ![id] = DictUpdate(@, payload)]
    ELSE js

update_job_ret(js, id) == TRUE

----------------------------------------------------------------------------
(* FileParser.import_feed_file: the summaries a transformer returns *)

OkSummary ==
    [totals |-> [raw_lines |-> 100, records_ok |-> 95, transactions |-> 95,
                 site_name |-> "Site_A"],
     error  |-> NoneV]

FailSummary ==
    [totals |-> [raw_lines |-> 0, records_ok |-> 0, transactions |-> 0],
     error  |-> [flag |-> "FAIL", message |-> "parse error"]]

FlagOkSummary ==
    [totals |-> [raw_lines |-> 100, records_ok |-> 95, transactions |-> 95],
     error  |-> [flag |-> "OK", message |-> "warning"]]

Summaries == {OkSummary, FailSummary, FlagOkSummary}

----------------------------------------------------------------------------
(* create_process_doc *)

Truthy(n) == n # 0

\* await asyncio.sleep(0.1), in microseconds
SleepMicros == 100000

ElapsedMillis(start, end) == (end - start) \div 1000

RawLinesOrOne_unguarded(tot) ==
    IF "raw_lines" \in DOMAIN tot THEN tot.raw_lines ELSE 1

\* tot.get('raw_lines') or 1
RawLinesOrOne(tot) ==
    IF "raw_lines" \in DOMAIN tot /\ Truthy(tot.raw_lines)
    THEN tot.raw_lines ELSE 1

TransactionsOrSentinel_if_absent(tot) ==
    IF "transactions" \in DOMAIN tot THEN tot.transactions ELSE -1

\* tot.get('transactions') or -1
TransactionsOrSentinel(tot) ==
    IF "transactions" \in DOMAIN tot /\ Truthy(tot.transactions)
    THEN tot.transactions ELSE -1

\* summary['totals'] and tot['records_ok'] are subscripts: KeyError when the
\* key is missing, re-raised at lines 284-286
create_process_doc_raises(summ) ==
    \/ "totals" \notin DOMAIN summ
    \/ "records_ok" \notin DOMAIN summ.totals

create_process_doc(start, end_now, summ) ==
    LET tot   == summ.totals
        endt  == FromIsoFormat(IsoFormat(end_now))
        ms    == ElapsedMillis(start, endt)
        lines == RawLinesOrOne(tot)
        trans == TransactionsOrSentinel(tot)
        base  == [start_time |-> IsoFormat(start),
                  end_time |-> IsoFormat(end_now),
                  elapsed_time_in_millisecs |-> ms,
                  elapsed_time_in_secs |-> <<ms, 1000>>,
                  valid_transac_perc |-> <<tot.records_ok * 100, lines>>,
                  tps |-> IF Truthy(ms) THEN <<trans * 1000, ms>> ELSE <<trans, 1>>]
        nested == {k \in DOMAIN summ : IsDict(summ[k])}
    IN  [k \in DOMAIN base \cup nested |->
            IF k \in nested THEN summ[k] ELSE base[k]]

----------------------------------------------------------------------------
(* process_next_file: the pure parts *)

my_proc_name == "FileProcessor"

InitialPayload(name, t) ==
    [process_id |-> my_proc_name,
     file |-> name,
     star_date |-> IsoFormat(t),
     input_processor |-> [start_time |-> IsoFormat(t), status |-> "processing"]]

\* ret = summary.get('error', {}).get('flag') if summary.get('error') else 'OK'
ErrorFlag(summ) ==
    IF IsDict(summ.error) /\ DOMAIN summ.error # {}
    THEN (IF "flag" \in DOMAIN summ.error THEN summ.error.flag ELSE "None")
    ELSE "OK"

Destination_swapped(r) == IF r = "FAIL" THEN "ok_path" ELSE "err_path"

\* to_path = err_path if ret == FAIL else ok_path
Destination(r) == IF r = "FAIL" THEN "err_path" ELSE "ok_path"

\* status = 'error' if ret == FAIL else 'finished'
StageStatus(r) == IF r = "FAIL" THEN "error" ELSE "finished"

HasSiteName(summ) == "site_name" \in DOMAIN summ.totals

\* lines 218-220, on the summary
SummaryWithoutSite(summ) ==
    IF HasSiteName(summ)
    THEN [summ EXCEPT !.totals = Del(@, "site_name")]
    ELSE summ

\* lines 218-220, on job_payload
PayloadWithSite(payload, summ) ==
    IF HasSiteName(summ)
    THEN [payload EXCEPT !.input_processor = Put(@, "site_name", summ.totals.site_name)]
    ELSE payload

mv_out_arr == <<"start_time", "end_time", "elapsed_time_in_millisecs",
                "elapsed_time_in_secs", "valid_transac_perc", "tps">>

\* summ_src = dict(process_results_doc): a shallow copy, a different object
SummSrc(doc) == doc

\* the for loop of lines 238-241 applied to the stage slot, whose 'summary'
\* entry is the object summ_src
RECURSIVE MoveOut(_, _)
MoveOut(slot, keys) ==
    IF keys = << >> THEN slot
    ELSE LET key == Head(keys)
             src == slot.summary
         IN  IF key \in DOMAIN src
             THEN MoveOut(Put(Put(slot, key, src[key]), "summary", Del(src, key)),
                          Tail(keys))
             ELSE MoveOut(slot, Tail(keys))

\* lines 226-241 on job_payload
FinalPayload(payload, r, doc) ==
    LET slot1 == Put(payload.input_processor, "status", StageStatus(r))
        slot2 == Put(slot1, "summary", SummSrc(doc))
    IN  [payload EXCEPT !.input_processor = MoveOut(slot2, mv_out_arr)]

\* the document the caller gets as hist_doc after lines 226-241: the loop
\* deletes from the copy, so process_results_doc keeps every key
HistDoc(doc) == doc

\* the value returned at line 247 / 260
ReturnValue(file, doc) == [file_name |-> file.file_name, hist_doc |-> doc]

Outcome_reraise(err) == IF err # NoneV THEN "raised" ELSE "returned"

\* lines 249-251 keep the exception; nothing is re-raised
Outcome(err) == "returned"

----------------------------------------------------------------------------
(* app/validators.py, app/database.py and the /ingest/events handler of     *)
(* app/routes.py.  A JSON object is a function with a string domain, a JSON *)
(* array is [py |-> "list", v |-> sequence], a scalar is [py |-> type,      *)
(* v |-> its text], null is NoneV.                                          *)

MaxEvents == 2
MaxRequests == 2

\* SimpleConnectionPool(1, 20, ...): at most this many connections
PoolSize == 20

PyInt(digits) == [py |-> "int", v |-> digits]
PyStr(str) == [py |-> "str", v |-> str]
PyFloat(str) == [py |-> "float", v |-> str]
PyList(seq) == [py |-> "list", v |-> seq]

PyType(x) ==
    IF "none" \in DOMAIN x THEN "NoneType"
    ELSE IF "py" \in DOMAIN x THEN x.py
    ELSE "dict"

\* isinstance(events, list)
IsList(x) == PyType(x) = "list"

\* the strings datetime.fromisoformat accepts after .replace('Z', '+00:00')
IsoTimestamps == {"2024-01-01T00:00:00Z"}

\* the strings int() accepts
IntStrings == {"2"}

\* int(x): "none" when it returns, else the exception it raises
IntRaises(x) ==
    CASE PyType(x) \in {"int", "bool"} -> "none"
      [] PyType(x) = "str" -> IF x.v \in IntStrings THEN "none" ELSE "ValueError"
      [] PyType(x) = "float" -> IF x.v = "inf" THEN "OverflowError"
                                ELSE IF x.v = "nan" THEN "ValueError"
                                ELSE "none"
      [] OTHER -> "TypeError"

\* x.replace(...) followed by datetime.fromisoformat: str.replace exists on
\* strings only (AttributeError otherwise), the parse raises ValueError
TimestampRaises(x) ==
    IF PyType(x) # "str" THEN "AttributeError"
    ELSE IF x.v \in IsoTimestamps THEN "none" ELSE "ValueError"

required_fields == <<"user_id", "event_type", "event_timestamp">>

valid_types == {"page_view", "add_to_cart", "purchase"}

\* f"Missing required field: {field}"
MissingMsg(field) ==
    CASE field = "user_id" -> "Missing required field: user_id"
      [] field = "event_type" -> "Missing required field: event_type"
      [] field = "event_timestamp" -> "Missing required field: event_timestamp"

RECURSIVE MissingFields(_, _)
MissingFields(event, i) ==
    IF i > Len(required_fields) THEN << >>
    ELSE (IF required_fields[i] \notin DOMAIN event
          THEN <<MissingMsg(required_fields[i])>>
          ELSE << >>) \o MissingFields(event, i + 1)

\* validate_event: the exception that leaves it ("none" when it returns).
\* `field not in event` raises TypeError on a value that is no container;
\* the handlers of lines 25 and 31 catch ValueError and TypeError only.
validate_event_raises(event) ==
    IF PyType(event) \in {"int", "float", "bool", "NoneType"} THEN "TypeError"
    ELSE IF "user_id" \in DOMAIN event /\ IntRaises(event.user_id) = "OverflowError"
    THEN "OverflowError"
    ELSE IF /\ "product_id" \in DOMAIN event
            /\ event.product_id # NoneV
            /\ IntRaises(event.product_id) = "OverflowError"
    THEN "OverflowError"
    ELSE "none"

\* validate_event: the list of errors it returns
validate_event(event) ==
    MissingFields(event, 1)
    \o (IF /\ "event_type" \in DOMAIN event
           /\ ~(PyType(event.event_type) = "str" /\ event.event_type.v \in valid_types)
        THEN <<"Invalid event_type">> ELSE << >>)
    \o (IF /\ "event_timestamp" \in DOMAIN event
           /\ TimestampRaises(event.event_timestamp) \in {"ValueError", "AttributeError"}
        THEN <<"Invalid timestamp format">> ELSE << >>)
    \o (IF /\ "user_id" \in DOMAIN event
           /\ IntRaises(event.user_id) \in {"ValueError", "TypeError"}
        THEN <<"user_id must be an integer">> ELSE << >>)
    \o (IF /\ "product_id" \in DOMAIN event
           /\ event.product_id # NoneV
           /\ IntRaises(event.product_id) \in {"ValueError", "TypeError"}
        THEN <<"product_id must be an integer">> ELSE << >>)

\* lines 108-117: the first exception of the loop, "none" when it completes
RECURSIVE ValidationRaises(_, _)
ValidationRaises(events, idx) ==
    IF idx > Len(events) THEN "none"
    ELSE IF validate_event_raises(events[idx]) # "none"
    THEN validate_event_raises(events[idx])
    ELSE ValidationRaises(events, idx + 1)

RECURSIVE ValidEvents(_, _)
ValidEvents(events, idx) ==
    IF idx > Len(events) THEN << >>
    ELSE (IF validate_event(events[idx]) = << >> THEN <<events[idx]>> ELSE << >>)
         \o ValidEvents(events, idx + 1)

\* enumerate() counts from 0
RECURSIVE InvalidEvents(_, _)
InvalidEvents(events, idx) ==
    IF idx > Len(events) THEN << >>
    ELSE (IF validate_event(events[idx]) # << >>
          THEN <<[index |-> idx - 1, event |-> events[idx],
                  errors |-> validate_event(events[idx])]>>
          ELSE << >>)
         \o InvalidEvents(events, idx + 1)

\* the parameters of the INSERT of lines 129-134
InsertRow(event) ==
    <<event.user_id, event.event_type,
      IF "product_id" \in DOMAIN event THEN event.product_id ELSE NoneV,
      event.event_timestamp>>

\* lines 139-148
IngestResponse(inserted, invalid) ==
    [status |-> IF invalid # << >> THEN 207 ELSE 201,
     inserted |-> inserted,
     rejected |-> Len(invalid),
     invalid_events |-> invalid]

ErrorResponse(code, msg) == [status |-> code, error |-> msg]

\* Events a client can put in the array
EvPurchase ==
    [user_id |-> PyInt("1"), event_type |-> PyStr("purchase"),
     event_timestamp |-> PyStr("2024-01-01T00:00:00Z")]

EvPageView ==
    [user_id |-> PyStr("2"), event_type |-> PyStr("page_view"),
     product_id |-> NoneV, event_timestamp |-> PyStr("2024-01-01T00:00:00Z")]

EvInvalid ==
    [user_id |-> PyStr("abc"), event_type |-> PyStr("click"),
     product_id |-> PyFloat("nan"), event_timestamp |-> PyStr("yesterday")]

EvMissing ==
    [event_type |-> PyStr("purchase"), event_timestamp |-> PyInt("5")]

\* 1e999 is read as float('inf') by json.loads
EvInfinite ==
    [user_id |-> PyFloat("inf"), event_type |-> PyStr("purchase"),
     event_timestamp |-> PyStr("2024-01-01T00:00:00Z")]

EvNumber == PyInt("1")

IngestEvents == {EvPurchase, EvPageView, EvInvalid, EvMissing, EvInfinite, EvNumber}

SeqsUpTo(S, n) == UNION {[1..k -> S] : k \in 0..n}

\* request.json: an object, or an array of at most MaxEvents events
RequestBodies == {EvPurchase} \cup {PyList(seq) : seq \in SeqsUpTo(IngestEvents, MaxEvents)}

InitWeb ==
    /\ request_json = NoneV
    /\ valid_events = << >>
    /\ invalid_events = << >>
    /\ inserted_count = 0
    /\ ingest_pc = "idle"
    /\ response = NoneV
    /\ pool_idle = PoolSize
    /\ cursor_open = FALSE
    /\ txn = << >>
    /\ events_table = << >>
    /\ requests = 0
    /\ table_at_start = << >>
    /\ db_error = FALSE

----------------------------------------------------------------------------
(* State after construction: the module-level singletons of lines 93-166   *)
(* and a pending directory as main() or an operator left it.               *)

NoJob == <<"None", 0>>

InitLocals ==
    /\ reverse_time_order = [p \in Procs |-> FALSE]
    /\ file_to_proc = [p \in Procs |-> NoneV]
    /\ local_err = [p \in Procs |-> NoneV]
    /\ process_results_doc = [p \in Procs |-> NoneV]
    /\ start_proc_file_time = [p \in Procs |-> 0]
    /\ job_payload = [p \in Procs |-> NoneV]
    /\ job_id = [p \in Procs |-> NoJob]
    /\ summary = [p \in Procs |-> NoneV]
    /\ ret = [p \in Procs |-> "None"]
    /\ to_path = [p \in Procs |-> "None"]
    /\ moved = [p \in Procs |-> FALSE]
    /\ pc = [p \in Procs |-> "idle"]
    /\ run_no = [p \in Procs |-> 0]
    /\ trace = [p \in Procs |-> << >>]
    /\ outcome = [p \in Procs |-> "none"]
    /\ result = [p \in Procs |-> NoneV]

InitStore ==
    /\ jobs = << >>
    /\ job_counter = 0
    /\ api_call = [op |-> "none"]
    /\ api_ret = NoneV

Init ==
    /\ repo_exists \in BOOLEAN
    /\ repo_path \in {e \in SUBSET (FileNames \cup DirNames) :
                        /\ Cardinality(e \cap FileNames) <= MaxFiles
                        /\ (~repo_exists => e = {})}
    /\ ok_path = {}
    /\ err_path = {}
    /\ now = 0
    /\ runs = 0
    /\ move_failed = FALSE
    /\ InitWeb
    /\ InitStore
    /\ InitLocals

----------------------------------------------------------------------------
(* process_next_file, one action per call it makes *)

StageAfter_update_before_doc(call) ==
    CASE call = "get_first_available_file" -> "create_job"
      [] call = "create_job"               -> "import_feed_file"
      [] call = "import_feed_file"         -> "move_file"
      [] call = "move_file"                -> "update_job"
      [] call = "update_job"               -> "create_process_doc"
      [] call = "create_process_doc"       -> "finally"

\* the statement order of lines 188-247: what follows a call that returned
StageAfter(call) ==
    CASE call = "get_first_available_file" -> "create_job"
      [] call = "create_job"               -> "import_feed_file"
      [] call = "import_feed_file"         -> "move_file"
      [] call = "move_file"                -> "create_process_doc"
      [] call = "create_process_doc"       -> "update_job"
      [] call = "update_job"               -> "finally"

\* jobs[job_id] = payload (line 112) stores the dict object itself, so an
\* assignment into job_payload is an assignment into the stored record
Aliased(js, id, payload) ==
    IF id \in DOMAIN js THEN [js EXCEPT ![id] = payload] ELSE js

\* lines 249-260 when no file was selected: no cleanup, return None
ReturnNone(p, err) ==
    /\ local_err' = [local_err EXCEPT ![p] = err]
    /\ file_to_proc' = [file_to_proc EXCEPT ![p] = NoneV]
    /\ job_payload' = [job_payload EXCEPT ![p] = NoneV]
    /\ start_proc_file_time' = [start_proc_file_time EXCEPT ![p] = 0]
    /\ pc' = [pc EXCEPT ![p] = "idle"]
    /\ outcome' = [outcome EXCEPT ![p] = Outcome(err)]
    /\ result' = [result EXCEPT ![p] = NoneV]

\* lines 249-251: the exception is kept in local_err, then the finally block
Raise(p, where) ==
    /\ local_err' = [local_err EXCEPT ![p] = Exc(where)]
    /\ pc' = [pc EXCEPT ![p] = "finally"]

\* lines 181-206
SelectFile(p) ==
    /\ pc[p] = "idle"
    /\ runs < MaxRuns
    /\ runs' = runs + 1
    /\ run_no' = [run_no EXCEPT ![p] = runs + 1]
    /\ \E reverse \in BOOLEAN, raises \in BOOLEAN :
          /\ reverse_time_order' = [reverse_time_order EXCEPT ![p] = reverse]
          /\ trace' = [trace EXCEPT ![p] = <<Call("get_first_available_file", NoneV)>>]
          /\ process_results_doc' = [process_results_doc EXCEPT ![p] = NoneV]
          /\ job_id' = [job_id EXCEPT ![p] = NoJob]
          /\ summary' = [summary EXCEPT ![p] = NoneV]
          /\ ret' = [ret EXCEPT ![p] = "None"]
          /\ to_path' = [to_path EXCEPT ![p] = "None"]
          /\ moved' = [moved EXCEPT ![p] = FALSE]
          /\ repo_path' = IF raises /\ repo_exists
                          THEN repo_path
                          ELSE get_first_available_file_dir(repo_exists, repo_path,
                                                            reverse)
          /\ IF raises /\ repo_exists
             THEN \* os.listdir raises
                  ReturnNone(p, Exc("get_first_available_file"))
             ELSE LET f == get_first_available_file(repo_exists, repo_path, reverse)
                  IN  IF f = NoneV
                      THEN ReturnNone(p, NoneV)
                      ELSE /\ file_to_proc' = [file_to_proc EXCEPT ![p] = f]
                           /\ local_err' = [local_err EXCEPT ![p] = NoneV]
                           /\ start_proc_file_time' =
                                 [start_proc_file_time EXCEPT ![p] = now]
                           /\ job_payload' = [job_payload EXCEPT ![p] =
                                                InitialPayload(f.file_name, now)]
                           /\ pc' = [pc EXCEPT ![p] = StageAfter("get_first_available_file")]
                           /\ outcome' = [outcome EXCEPT ![p] = "running"]
                           /\ result' = [result EXCEPT ![p] = NoneV]
    /\ UNCHANGED <<repo_exists, ok_path, err_path, store, now, api, move_failed, web>>

\* line 207
CreateJob(p) ==
    /\ pc[p] = "create_job"
    /\ trace' = [trace EXCEPT ![p] = Append(@, Call("create_job", NoneV))]
    /\ \/ /\ Raise(p, "create_job")
          /\ UNCHANGED <<store, job_id>>
       \/ /\ job_counter' = create_job_counter(job_counter)
          /\ jobs' = create_job_jobs(jobs, job_counter, job_payload[p])
          /\ job_id' = [job_id EXCEPT ![p] = create_job_id(job_counter)]
          /\ pc' = [pc EXCEPT ![p] = StageAfter("create_job")]
          /\ UNCHANGED local_err
    /\ UNCHANGED <<dirs, now, runs, run_no, move_failed, web, reverse_time_order, file_to_proc,
                   process_results_doc, start_proc_file_time, job_payload,
                   summary, ret, to_path, moved, outcome, result, api>>

\* line 210; the clock advances while the transformer sleeps (line 149)
ImportFeedFile(p) ==
    /\ pc[p] = "import_feed_file"
    /\ trace' = [trace EXCEPT ![p] = Append(@, Call("import_feed_file", NoneV))]
    /\ \/ /\ Raise(p, "import_feed_file")
          /\ UNCHANGED <<summary, now>>
       \/ /\ \E s \in Summaries : summary' = [summary EXCEPT ![p] = s]
          /\ now' = now + SleepMicros
          /\ pc' = [pc EXCEPT ![p] = StageAfter("import_feed_file")]
          /\ UNCHANGED local_err
    /\ UNCHANGED <<dirs, store, runs, run_no, move_failed, web, reverse_time_order, file_to_proc,
                   process_results_doc, start_proc_file_time, job_payload,
                   job_id, ret, to_path, moved, outcome, result, api>>

\* lines 212-216; move_file itself catches what it raises (lines 83-85)
MoveFile(p) ==
    /\ pc[p] = "move_file"
    /\ trace' = [trace EXCEPT ![p] = Append(@, Call("move_file", NoneV))]
    /\ LET r    == ErrorFlag(summary[p])
           dest == Destination(r)
           name == file_to_proc[p].file_name
           src_exists == repo_exists /\ name \in repo_path
       IN  /\ ret' = [ret EXCEPT ![p] = r]
           /\ to_path' = [to_path EXCEPT ![p] = dest]
           /\ \E io_fault \in BOOLEAN :
                 /\ moved' = [moved EXCEPT ![p] = move_file_ret(src_exists, io_fault)]
                 /\ move_failed' = (move_failed \/ ~move_file_ret(src_exists, io_fault))
                 /\ UNCHANGED web
                 /\ repo_path' = move_file_from(repo_path, name, src_exists, io_fault)
                 /\ ok_path' = IF dest = "ok_path"
                               THEN move_file_to(ok_path, name, src_exists, io_fault)
                               ELSE ok_path
                 /\ err_path' = IF dest = "err_path"
                                THEN move_file_to(err_path, name, src_exists, io_fault)
                                ELSE err_path
    /\ pc' = [pc EXCEPT ![p] = StageAfter("move_file")]
    /\ UNCHANGED <<repo_exists, store, now, runs, run_no, reverse_time_order, file_to_proc,
                   local_err, process_results_doc, start_proc_file_time,
                   job_payload, job_id, summary, outcome, result, api>>

\* lines 218-241
CreateProcessDoc(p) ==
    /\ pc[p] = "create_process_doc"
    /\ trace' = [trace EXCEPT ![p] = Append(@, Call("create_process_doc", NoneV))]
    /\ LET summ1    == SummaryWithoutSite(summary[p])
           payload1 == PayloadWithSite(job_payload[p], summary[p])
           doc      == create_process_doc(start_proc_file_time[p], now, summ1)
           payload2 == FinalPayload(payload1, ret[p], doc)
       IN  /\ summary' = [summary EXCEPT ![p] = summ1]
           /\ \/ \* create_process_doc raises (lines 284-286)
                 /\ Raise(p, "create_process_doc")
                 /\ job_payload' = [job_payload EXCEPT ![p] = payload1]
                 /\ jobs' = Aliased(jobs, job_id[p], payload1)
                 /\ UNCHANGED process_results_doc
              \/ /\ process_results_doc' =
                       [process_results_doc EXCEPT ![p] = HistDoc(doc)]
                 /\ job_payload' = [job_payload EXCEPT ![p] = payload2]
                 /\ jobs' = Aliased(jobs, job_id[p], payload2)
                 /\ pc' = [pc EXCEPT ![p] = StageAfter("create_process_doc")]
                 /\ UNCHANGED local_err
    /\ UNCHANGED <<dirs, job_counter, now, runs, run_no, move_failed, web, reverse_time_order, file_to_proc,
                   start_proc_file_time, job_id, ret, to_path, moved, outcome,
                   result, api>>

\* lines 243-247
UpdateJob(p) ==
    /\ pc[p] = "update_job"
    /\ trace' = [trace EXCEPT ![p] = Append(@, Call("update_job", NoneV))]
    /\ \/ /\ Raise(p, "update_job")
          /\ UNCHANGED jobs
       \/ /\ jobs' = update_job_jobs(jobs, job_id[p], job_payload[p])
          /\ pc' = [pc EXCEPT ![p] = StageAfter("update_job")]
          /\ UNCHANGED local_err
    /\ UNCHANGED <<dirs, job_counter, now, runs, run_no, move_failed, web, reverse_time_order, file_to_proc,
                   process_results_doc, start_proc_file_time, job_payload, job_id,
                   summary, ret, to_path, moved, outcome, result, api>>

Cleanup_only_on_success(p) ==
    /\ pc[p] = "finally"
    /\ trace' = [trace EXCEPT ![p] =
                    IF clean_file_process_q_called(file_to_proc[p]) /\ local_err[p] = NoneV
                    THEN Append(@, Call("clean_file_process_q", local_err[p]))
                    ELSE @]
    /\ outcome' = [outcome EXCEPT ![p] = Outcome(local_err[p])]
    /\ result' = [result EXCEPT ![p] =
                    ReturnValue(file_to_proc[p], process_results_doc[p])]
    /\ pc' = [pc EXCEPT ![p] = "idle"]
    /\ UNCHANGED <<dirs, store, now, runs, run_no, move_failed, web, locals, api>>

\* lines 252-260 (and the return of line 247 passing through the finally block)
Cleanup(p) ==
    /\ pc[p] = "finally"
    /\ trace' = [trace EXCEPT ![p] =
                    IF clean_file_process_q_called(file_to_proc[p])
                    THEN Append(@, Call("clean_file_process_q", local_err[p]))
                    ELSE @]
    /\ outcome' = [outcome EXCEPT ![p] = Outcome(local_err[p])]
    /\ result' = [result EXCEPT ![p] =
                    ReturnValue(file_to_proc[p], process_results_doc[p])]
    /\ pc' = [pc EXCEPT ![p] = "idle"]
    /\ UNCHANGED <<dirs, store, now, runs, run_no, move_failed, web, locals, api>>

\* process_next_file is awaited once at a time (main(), line 309)
Next ==
    \E p \in {1} :
        \/ SelectFile(p)
        \/ CreateJob(p)
        \/ ImportFeedFile(p)
        \/ MoveFile(p)
        \/ CreateProcessDoc(p)
        \/ UpdateJob(p)
        \/ Cleanup(p)

Spec == Init /\ [][Next]_vars

----------------------------------------------------------------------------
(* Two invocations of process_next_file on the same event loop and the     *)
(* same files_path, each started once, interleaved between their awaits    *)

InitConc ==
    /\ Init
    /\ repo_exists
    /\ repo_path \subseteq FileNames
    /\ repo_path # {}

NextConc ==
    \E p \in Procs :
        \/ (run_no[p] = 0 /\ SelectFile(p))
        \/ CreateJob(p)
        \/ ImportFeedFile(p)
        \/ MoveFile(p)
        \/ CreateProcessDoc(p)
        \/ UpdateJob(p)
        \/ Cleanup(p)

SpecConc == InitConc /\ [][NextConc]_vars

----------------------------------------------------------------------------
(* create_process_doc called directly on a start time, a clock value and a *)
(* summary                                                                 *)

Restrict(f, keys) == [k \in keys |-> f[k]]

DocTotals ==
    {Restrict([raw_lines |-> r, records_ok |-> k, transactions |-> t], keys) :
        r \in {0, 100}, k \in {0, 95}, t \in {0, 95},
        keys \in {{"raw_lines", "records_ok", "transactions"},
                  {"raw_lines", "transactions"},
                  {"raw_lines", "records_ok"}}}

DocSummaries ==
    {[totals |-> tot, error |-> e] :
        tot \in DocTotals, e \in {NoneV, FailSummary.error}}

\* end times: the same instant, less than a millisecond later, one and a
\* half milliseconds later, after the transformer's sleep
DocClock == {0, 999, 1500, SleepMicros}

InitDoc ==
    /\ repo_exists = TRUE
    /\ repo_path = {}
    /\ ok_path = {}
    /\ err_path = {}
    /\ runs = 0
    /\ move_failed = FALSE
    /\ InitWeb
    /\ InitStore
    /\ reverse_time_order = [p \in Procs |-> FALSE]
    /\ file_to_proc = [p \in Procs |-> NoneV]
    /\ local_err = [p \in Procs |-> NoneV]
    /\ process_results_doc = [p \in Procs |-> NoneV]
    /\ start_proc_file_time = [p \in Procs |-> 0]
    /\ job_payload = [p \in Procs |-> NoneV]
    /\ job_id = [p \in Procs |-> NoJob]
    /\ ret = [p \in Procs |-> "None"]
    /\ to_path = [p \in Procs |-> "None"]
    /\ moved = [p \in Procs |-> FALSE]
    /\ pc = [p \in Procs |-> "idle"]
    /\ run_no = [p \in Procs |-> 0]
    /\ trace = [p \in Procs |-> << >>]
    /\ outcome = [p \in Procs |-> "none"]
    /\ result = [p \in Procs |-> NoneV]
    /\ now \in DocClock
    /\ \E s \in DocSummaries : summary = [p \in Procs |-> IF p = 1 THEN s ELSE NoneV]

ApiCreateProcessDoc ==
    /\ api_call.op = "none"
    /\ api_call' = [op |-> "create_process_doc", n |-> 1]
    /\ IF create_process_doc_raises(summary[1])
       THEN /\ local_err' = [local_err EXCEPT ![1] = Exc("create_process_doc")]
            /\ UNCHANGED process_results_doc
       ELSE /\ process_results_doc' =
                  [process_results_doc EXCEPT ![1] =
                      create_process_doc(start_proc_file_time[1], now, summary[1])]
            /\ UNCHANGED local_err
    /\ UNCHANGED <<dirs, store, now, runs, run_no, move_failed, web, pc, reverse_time_order,
                   file_to_proc, start_proc_file_time, job_payload, job_id,
                   summary, ret, to_path, moved, trace, outcome, result, api_ret>>

NextDoc == ApiCreateProcessDoc

SpecDoc == InitDoc /\ [][NextDoc]_vars

----------------------------------------------------------------------------
(* The job store called directly: any sequence of create_job / update_job  *)

ApiPayloads == {InitialPayload(n, 0) : n \in {<<1>>, <<2>>}}

ApiPatches ==
    {[input_processor |-> [start_time |-> IsoFormat(0), status |-> "finished"]],
     [input_processor |-> [start_time |-> IsoFormat(0), status |-> "error"]]}

ApiJobIds == {JobIdOf(n) : n \in 1..(MaxJobs + 1)}

ApiCalls == IF "n" \in DOMAIN api_call THEN api_call.n ELSE 0

ApiCreateJob ==
    /\ ApiCalls < MaxApiCalls
    /\ job_counter < MaxJobs
    /\ \E payload \in ApiPayloads :
          /\ job_counter' = create_job_counter(job_counter)
          /\ jobs' = create_job_jobs(jobs, job_counter, payload)
          /\ api_ret' = create_job_id(job_counter)
          /\ api_call' = [op |-> "create_job", n |-> ApiCalls + 1,
                          payload |-> payload]
    /\ UNCHANGED <<dirs, now, runs, run_no, move_failed, web, pc, locals, trace, outcome, result>>

ApiUpdateJob ==
    /\ ApiCalls < MaxApiCalls
    /\ \E id \in ApiJobIds, patch \in ApiPatches :
          /\ jobs' = update_job_jobs(jobs, id, patch)
          /\ api_ret' = update_job_ret(jobs, id)
          /\ api_call' = [op |-> "update_job", n |-> ApiCalls + 1,
                          id |-> id, patch |-> patch]
    /\ UNCHANGED <<dirs, job_counter, now, runs, run_no, move_failed, web, pc, locals, trace,
                   outcome, result>>

InitStoreSpec ==
    /\ repo_exists = TRUE
    /\ repo_path = {}
    /\ ok_path = {}
    /\ err_path = {}
    /\ now = 0
    /\ runs = 0
    /\ move_failed = FALSE
    /\ InitWeb
    /\ InitStore
    /\ InitLocals

NextStore == ApiCreateJob \/ ApiUpdateJob

SpecStore == InitStoreSpec /\ [][NextStore]_vars

----------------------------------------------------------------------------
(* FilesManager.move_file called directly, from the pending directory to   *)
(* one of the two terminal directories, any number of times per file       *)

ApiMoveFile ==
    /\ ApiCalls < MaxApiCalls
    /\ \E name \in FileNames, dest \in {"ok_path", "err_path"}, io_fault \in BOOLEAN :
          LET src_exists == repo_exists /\ name \in repo_path
          IN  /\ api_ret' = move_file_ret(src_exists, io_fault)
              /\ move_failed' = (move_failed \/ ~move_file_ret(src_exists, io_fault))
              /\ UNCHANGED web
              /\ repo_path' = move_file_from(repo_path, name, src_exists, io_fault)
              /\ ok_path' = IF dest = "ok_path"
                            THEN move_file_to(ok_path, name, src_exists, io_fault)
                            ELSE ok_path
              /\ err_path' = IF dest = "err_path"
                             THEN move_file_to(err_path, name, src_exists, io_fault)
                             ELSE err_path
              /\ api_call' = [op |-> "move_file", n |-> ApiCalls + 1,
                              file_name |-> name, to_path |-> dest,
                              io_fault |-> io_fault]
    /\ UNCHANGED <<repo_exists, store, now, runs, run_no, pc, locals, trace,
                   outcome, result>>

NextFiles == ApiMoveFile

SpecFiles == Init /\ [][NextFiles]_vars

----------------------------------------------------------------------------
(* POST /ingest/events, one request at a time, one action per database     *)
(* call.  getconn, cursor(), execute and commit may raise; rollback,        *)
(* cursor.close and putconn are taken not to raise.                         *)

\* get_db_cursor, lines 47-51, get_db_connection, lines 36-37, and the
\* handler of routes.py lines 136-137
DatabaseError(had_conn) ==
    /\ txn' = << >>
    /\ cursor_open' = FALSE
    /\ pool_idle' = IF had_conn THEN pool_idle + 1 ELSE pool_idle
    /\ db_error' = TRUE
    /\ response' = ErrorResponse(500, "Database error")
    /\ ingest_pc' = "done"

\* routes.py lines 97-120, and 139-148 when no event is valid
IngestValidate ==
    /\ ingest_pc \in {"idle", "done"}
    /\ requests < MaxRequests
    /\ requests' = requests + 1
    /\ table_at_start' = events_table
    /\ db_error' = FALSE
    /\ inserted_count' = 0
    /\ \E body \in RequestBodies :
          /\ request_json' = body
          /\ IF ~IsList(body)
             THEN /\ response' = ErrorResponse(400, "Request body must be a JSON array of events")
                  /\ ingest_pc' = "done"
                  /\ valid_events' = << >>
                  /\ invalid_events' = << >>
             ELSE IF body.v = << >>
             THEN /\ response' = ErrorResponse(400, "Events array cannot be empty")
                  /\ ingest_pc' = "done"
                  /\ valid_events' = << >>
                  /\ invalid_events' = << >>
             ELSE IF ValidationRaises(body.v, 1) # "none"
             THEN \* nothing catches it: it leaves ingest_events
                  /\ response' = Exc(ValidationRaises(body.v, 1))
                  /\ ingest_pc' = "done"
                  /\ valid_events' = << >>
                  /\ invalid_events' = << >>
             ELSE /\ valid_events' = ValidEvents(body.v, 1)
                  /\ invalid_events' = InvalidEvents(body.v, 1)
                  /\ IF ValidEvents(body.v, 1) = << >>
                     THEN /\ response' = IngestResponse(0, InvalidEvents(body.v, 1))
                          /\ ingest_pc' = "done"
                     ELSE /\ response' = NoneV
                          /\ ingest_pc' = "get_db_cursor"
    /\ UNCHANGED <<pool_idle, cursor_open, txn, events_table, core>>

\* routes.py line 127; database.py lines 33 and 41-42
IngestGetDbCursor ==
    /\ ingest_pc = "get_db_cursor"
    /\ \E fault \in {"none", "getconn", "cursor"} :
          IF fault = "getconn" \/ pool_idle = 0
          THEN DatabaseError(FALSE)
          ELSE IF fault = "cursor"
          THEN \* getconn took a connection, putconn gives it back
               /\ txn' = << >>
               /\ cursor_open' = FALSE
               /\ pool_idle' = (pool_idle - 1) + 1
               /\ db_error' = TRUE
               /\ response' = ErrorResponse(500, "Database error")
               /\ ingest_pc' = "done"
          ELSE /\ pool_idle' = pool_idle - 1
               /\ cursor_open' = TRUE
               /\ ingest_pc' = "execute"
               /\ UNCHANGED <<txn, db_error, response>>
    /\ UNCHANGED <<request_json, valid_events, invalid_events, inserted_count,
                   events_table, requests, table_at_start, core>>

\* routes.py lines 128-135, one turn of the loop
IngestExecute ==
    /\ ingest_pc = "execute"
    /\ inserted_count < Len(valid_events)
    /\ \E raises \in BOOLEAN :
          IF raises
          THEN DatabaseError(TRUE) /\ UNCHANGED inserted_count
          ELSE /\ txn' = Append(txn, InsertRow(valid_events[inserted_count + 1]))
               /\ inserted_count' = inserted_count + 1
               /\ UNCHANGED <<cursor_open, pool_idle, db_error, response, ingest_pc>>
    /\ UNCHANGED <<request_json, valid_events, invalid_events, events_table,
                   requests, table_at_start, core>>

\* database.py lines 45-46, 50-51 and 36-37; routes.py lines 139-148
IngestCommit ==
    /\ ingest_pc = "execute"
    /\ inserted_count = Len(valid_events)
    /\ \E raises \in BOOLEAN :
          IF raises
          THEN DatabaseError(TRUE) /\ UNCHANGED events_table
          ELSE /\ events_table' = events_table \o txn
               /\ txn' = << >>
               /\ cursor_open' = FALSE
               /\ pool_idle' = pool_idle + 1
               /\ response' = IngestResponse(inserted_count, invalid_events)
               /\ ingest_pc' = "done"
               /\ UNCHANGED db_error
    /\ UNCHANGED <<request_json, valid_events, invalid_events, inserted_count,
                   requests, table_at_start, core>>

InitIngest == InitStoreSpec

NextIngest == IngestValidate \/ IngestGetDbCursor \/ IngestExecute \/ IngestCommit

SpecIngest == InitIngest /\ [][NextIngest]_vars

----------------------------------------------------------------------------
(* Properties *)

Returned(p) == pc[p] = "idle" /\ outcome[p] # "none"

Selected(p) == file_to_proc[p] # NoneV

RegularFiles == {f \in repo_path : f \in FileNames}

FlagIsFail(p) == IsDict(summary[p].error) /\ summary[p].error.flag = "FAIL"

TimingKeys == {"start_time", "end_time", "elapsed_time_in_millisecs",
               "elapsed_time_in_secs", "valid_transac_perc", "tps"}

LastCall(p) == trace[p][Len(trace[p])]

\* C1: whenever process_next_file returns from an invocation that found at
\* least one regular file in the pending directory, a file was selected, it is
\* no longer in the pending directory and it is in the success or the error
\* directory.
C1_Claim ==
    \A p \in Procs :
        (Returned(p) /\ (Selected(p) \/ (repo_exists /\ RegularFiles # {})))
        => /\ Selected(p)
           /\ file_to_proc[p].file_name \notin repo_path
           /\ file_to_proc[p].file_name \in ok_path \cup err_path

\* C2: when an invocation that selected a file has returned, update_job was
\* called exactly once, with a terminal status, and move_file was called
\* exactly once, whatever the stages did.
C2_Claim ==
    \A p \in Procs :
        (Returned(p) /\ Selected(p))
        => /\ Count(trace[p], "update_job") = 1
           /\ Count(trace[p], "move_file") = 1
           /\ job_payload[p].input_processor.status \in {"finished", "error"}

\* C3: in a run where no stage raised, the destination is err_path and the
\* status (local and stored) is 'error' exactly when the summary's flag is
\* FAIL, otherwise ok_path and 'finished'; a file that was moved is in the
\* directory that matches the status.
C3_Routing ==
    \A p \in Procs :
        (Returned(p) /\ Selected(p) /\ local_err[p] = NoneV)
        => /\ to_path[p] = (IF FlagIsFail(p) THEN "err_path" ELSE "ok_path")
           /\ job_payload[p].input_processor.status =
                 (IF FlagIsFail(p) THEN "error" ELSE "finished")
           /\ jobs[job_id[p]].input_processor.status =
                 (IF FlagIsFail(p) THEN "error" ELSE "finished")
           /\ moved[p] => file_to_proc[p].file_name \in
                 (IF FlagIsFail(p) THEN err_path \ ok_path ELSE ok_path \ err_path)

C3_Witness ==
    \E p \in Procs :
        /\ Returned(p) /\ Selected(p) /\ local_err[p] = NoneV
        /\ FlagIsFail(p)
        /\ moved[p]
        /\ to_path[p] = "err_path"
        /\ file_to_proc[p].file_name \in err_path
        /\ jobs[job_id[p]].input_processor.status = "error"

\* C4: an invocation that starts when the pending directory is missing or has
\* no regular file returns None at once without raising; the job store, the
\* counter and the three directories are as before, and neither move_file nor
\* the cleanup step was called.
C4_EmptyQueue ==
    [][\A p \in Procs :
          (run_no'[p] # run_no[p] /\ (~repo_exists \/ RegularFiles = {}))
          => /\ pc'[p] = "idle"
             /\ outcome'[p] = "returned"
             /\ result'[p] = NoneV
             /\ jobs' = jobs
             /\ job_counter' = job_counter
             /\ UNCHANGED dirs
             /\ Count(trace'[p], "move_file") = 0
             /\ Count(trace'[p], "create_job") = 0
             /\ Count(trace'[p], "clean_file_process_q") = 0]_vars

C4_Witness ==
    \E p \in Procs :
        /\ Returned(p)
        /\ result[p] = NoneV
        /\ outcome[p] = "returned"
        /\ repo_exists
        /\ repo_path = DirNames
        /\ job_counter = 0
        /\ runs = MaxRuns

\* C5: the cleanup step is never called before the invocation leaves the try
\* block, and when an invocation that selected a file has ended it was called
\* exactly once, as the last call, on the normal path and on every exception
\* path alike; it is not called when no file was selected.
C5_CleanupOnce ==
    \A p \in Procs :
        /\ Count(trace[p], "clean_file_process_q") <= 1
        /\ pc[p] # "idle" => Count(trace[p], "clean_file_process_q") = 0
        /\ (Returned(p) /\ Selected(p))
           => /\ Count(trace[p], "clean_file_process_q") = 1
              /\ LastCall(p).call = "clean_file_process_q"
        /\ (Returned(p) /\ ~Selected(p))
           => Count(trace[p], "clean_file_process_q") = 0

C5_Witness ==
    \E p \in Procs :
        /\ Returned(p) /\ Selected(p)
        /\ local_err[p] = Exc("create_job")
        /\ Count(trace[p], "clean_file_process_q") = 1

\* C6: when get_first_available_file or create_job raised, the invocation ends
\* by raising to its caller, and move_file was not called.
C6_Claim ==
    \A p \in Procs :
        (Returned(p) /\ local_err[p] \in {Exc("get_first_available_file"),
                                          Exc("create_job")})
        => /\ outcome[p] = "raised"
           /\ Count(trace[p], "move_file") = 0

\* C7: when a step after create_job raised, the invocation does not raise: it
\* returns the selected file's name with the partial hist_doc (None unless the
\* metrics document was built), and the cleanup step ran last, once, with the
\* kept exception as its error argument.
C7_Swallowed ==
    \A p \in Procs :
        (Returned(p) /\ local_err[p] \in {Exc("import_feed_file"),
                                          Exc("create_process_doc"),
                                          Exc("update_job")})
        => /\ outcome[p] = "returned"
           /\ result[p] # NoneV
           /\ result[p].file_name = file_to_proc[p].file_name
           /\ result[p].hist_doc = process_results_doc[p]
           /\ (result[p].hist_doc = NoneV) <=> (local_err[p] # Exc("update_job"))
           /\ LastCall(p) = Call("clean_file_process_q", local_err[p])
           /\ Count(trace[p], "clean_file_process_q") = 1

C7_Witness ==
    \E p \in Procs :
        /\ Returned(p)
        /\ local_err[p] = Exc("update_job")
        /\ outcome[p] = "returned"
        /\ result[p].hist_doc # NoneV
        /\ LastCall(p) = Call("clean_file_process_q", Exc("update_job"))

\* C8: update_job with an id that is not in the store leaves the store as it
\* is and returns false; with a known id it merges the patch and returns true.
C8_Claim ==
    [][(api_call' # api_call /\ api_call'.op = "update_job")
       => IF api_call'.id \in DOMAIN jobs
          THEN /\ api_ret' = TRUE
               /\ jobs' = [jobs EXCEPT ![api_call'.id] =
                              DictUpdate(@, api_call'.patch)]
          ELSE /\ api_ret' = FALSE
               /\ jobs' = jobs]_vars

\* C9: every call of move_file returns a boolean (it never raises); it returns
\* False and moves nothing when the source is absent or an I/O fault occurs;
\* it returns True only when the file left the pending directory and entered
\* the destination; so a second call after a successful move returns False
\* and leaves the file where it is.
C9_MoveFile ==
    [][(api_call' # api_call /\ api_call'.op = "move_file")
       => LET name    == api_call'.file_name
              present == repo_exists /\ name \in repo_path
          IN  /\ api_ret' \in BOOLEAN
              /\ ~present => (api_ret' = FALSE /\ UNCHANGED dirs)
              /\ api_call'.io_fault => (api_ret' = FALSE /\ UNCHANGED dirs)
              /\ api_ret' = FALSE => UNCHANGED dirs
              /\ api_ret' = TRUE =>
                    /\ present
                    /\ repo_path' = repo_path \ {name}
                    /\ IF api_call'.to_path = "ok_path"
                       THEN ok_path' = ok_path \cup {name} /\ err_path' = err_path
                       ELSE err_path' = err_path \cup {name} /\ ok_path' = ok_path]_vars

C9_Witness ==
    /\ api_call.op = "move_file"
    /\ api_call.n >= 2
    /\ ~api_call.io_fault
    /\ api_ret = FALSE
    /\ api_call.file_name \notin repo_path
    /\ api_call.file_name \in ok_path
    /\ api_call.to_path = "err_path"

\* C10: after a run in which no stage raised, the six timing fields are in the
\* stored record's input_processor slot and none of them is in the hist_doc
\* returned to the caller, which holds only the summary's sub-documents.
C10_Claim ==
    \A p \in Procs :
        (Returned(p) /\ Selected(p) /\ local_err[p] = NoneV)
        => /\ TimingKeys \subseteq DOMAIN jobs[job_id[p]].input_processor
           /\ TimingKeys \cap DOMAIN result[p].hist_doc = {}
           /\ DOMAIN result[p].hist_doc \subseteq {"totals", "error"}

\* C11: get_first_available_file claims nothing, so while an invocation is
\* between its selection and its move_file call, and no other invocation has
\* moved that file, the file is still in the pending directory for anyone to
\* select; the state in which both invocations hold the same file, each with a
\* job record of its own, is reachable (C11_Race).
C11_NothingClaimed ==
    \A p \in Procs :
        (/\ pc[p] \in {"create_job", "import_feed_file", "move_file"}
         /\ \A q \in Procs \ {p} :
               ~(/\ Selected(q)
                 /\ moved[q]
                 /\ file_to_proc[q].file_name = file_to_proc[p].file_name))
        => file_to_proc[p].file_name \in repo_path

C11_Race ==
    /\ pc[1] = "import_feed_file"
    /\ pc[2] = "import_feed_file"
    /\ file_to_proc[1].file_name = file_to_proc[2].file_name
    /\ file_to_proc[1].file_name \in repo_path
    /\ job_id[1] # job_id[2]
    /\ {job_id[1], job_id[2]} \subseteq DOMAIN jobs
    /\ jobs[job_id[1]].file = file_to_proc[1].file_name
    /\ jobs[job_id[2]].file = file_to_proc[1].file_name

\* C12: over any sequence of create_job and update_job calls, a create_job
\* returns an id that was not in the store before, stores the payload it was
\* given (stage status 'processing') under it and leaves the other records
\* alone; no id ever leaves the store, and the number of records equals
\* job_counter.
C12_FreshIds ==
    [][/\ (api_call' # api_call /\ api_call'.op = "create_job")
          => /\ api_ret' \notin DOMAIN jobs
             /\ api_ret' \in DOMAIN jobs'
             /\ jobs'[api_ret'] = api_call'.payload
             /\ jobs'[api_ret'].input_processor.status = "processing"
             /\ \A id \in DOMAIN jobs : jobs'[id] = jobs[id]
       /\ DOMAIN jobs \subseteq DOMAIN jobs'
       /\ Cardinality(DOMAIN jobs') = job_counter'
       /\ DOMAIN jobs' = {JobIdOf(n) : n \in 1..job_counter'}]_vars

C12_Witness ==
    /\ api_call.op = "create_job"
    /\ job_counter = 2
    /\ api_ret = JobIdOf(2)
    /\ jobs[JobIdOf(1)].input_processor.status = "finished"
    /\ jobs[JobIdOf(2)].input_processor.status = "processing"

DocApplied == api_call.op = "create_process_doc"

DocMillis == ElapsedMillis(start_proc_file_time[1], now)

\* C13: create_process_doc raises only when records_ok is missing, never
\* because raw_lines is 0 or the elapsed time is 0 ms; no divisor is 0; with
\* raw_lines = 0 the percentage divisor is 1, so records_ok = 0 gives 0; with
\* 0 elapsed milliseconds the throughput divisor is 1.
C13_Guarded ==
    DocApplied =>
        LET tot == summary[1].totals
            doc == process_results_doc[1]
        IN  /\ (local_err[1] # NoneV) <=> ("records_ok" \notin DOMAIN tot)
            /\ local_err[1] = NoneV =>
                  /\ doc # NoneV
                  /\ doc.valid_transac_perc[2] # 0
                  /\ doc.tps[2] # 0
                  /\ tot.raw_lines = 0 => doc.valid_transac_perc[2] = 1
                  /\ tot.raw_lines # 0 => doc.valid_transac_perc[2] = tot.raw_lines
                  /\ doc.valid_transac_perc[1] = tot.records_ok * 100
                  /\ (tot.raw_lines = 0 /\ tot.records_ok = 0)
                        => doc.valid_transac_perc = <<0, 1>>
                  /\ doc.elapsed_time_in_millisecs = DocMillis
                  /\ DocMillis = 0 => doc.tps[2] = 1
                  /\ DocMillis # 0 => doc.tps[2] = DocMillis

C13_Witness ==
    /\ DocApplied
    /\ local_err[1] = NoneV
    /\ summary[1].totals.raw_lines = 0
    /\ summary[1].totals.records_ok = 0
    /\ now = 999
    /\ process_results_doc[1].elapsed_time_in_millisecs = 0
    /\ process_results_doc[1].valid_transac_perc = <<0, 1>>
    /\ process_results_doc[1].tps[2] = 1

\* the throughput create_process_doc stores for numerator n
TpsOf(n) == IF DocMillis # 0 THEN <<n * 1000, DocMillis>> ELSE <<n, 1>>

\* C14 as claimed: the throughput numerator is the transactions count whenever
\* the count is present in totals, 0 included, and -1 only when it is absent.
C14_Claim ==
    (DocApplied /\ local_err[1] = NoneV) =>
        LET tot == summary[1].totals
        IN  process_results_doc[1].tps =
               TpsOf(IF "transactions" \in DOMAIN tot THEN tot.transactions ELSE -1)

\* C14 as amended: the numerator is the transactions count when the count is
\* present and not 0, and the sentinel -1 when it is absent or 0, so that
\* transactions = 0 yields a negative tps.
C14_Sentinel ==
    (DocApplied /\ local_err[1] = NoneV) =>
        LET tot == summary[1].totals
        IN  /\ process_results_doc[1].tps =
                  TpsOf(IF "transactions" \in DOMAIN tot /\ tot.transactions # 0
                        THEN tot.transactions ELSE -1)
            /\ ("transactions" \in DOMAIN tot /\ tot.transactions = 0)
                  => process_results_doc[1].tps[1] < 0

C14_Witness ==
    /\ DocApplied
    /\ local_err[1] = NoneV
    /\ "transactions" \in DOMAIN summary[1].totals
    /\ summary[1].totals.transactions = 0
    /\ now = 1500
    /\ process_results_doc[1].tps = <<-1000, 1>>

\* dictionary order on file names
RECURSIVE LexLeq(_, _)
LexLeq(a, b) ==
    IF a = << >> THEN TRUE
    ELSE IF b = << >> THEN FALSE
    ELSE IF Head(a) < Head(b) THEN TRUE
    ELSE IF Head(b) < Head(a) THEN FALSE
    ELSE LexLeq(Tail(a), Tail(b))

\* C15: when get_first_available_file returns for a pending directory with at
\* least one regular file, the name it returns is one of the directory's
\* regular files, the smallest in dictionary order when reverse_time_order is
\* false and the largest when it is true, paired with its path inside the
\* directory; the directories, the job store and the counter are unchanged.
C15_FirstFile ==
    [][\A p \in Procs :
          (/\ run_no'[p] # run_no[p]
           /\ repo_exists
           /\ RegularFiles # {}
           /\ local_err'[p] = NoneV)
          => /\ file_to_proc'[p] # NoneV
             /\ file_to_proc'[p].file_name \in RegularFiles
             /\ \A g \in RegularFiles :
                   IF reverse_time_order'[p]
                   THEN LexLeq(g, file_to_proc'[p].file_name)
                   ELSE LexLeq(file_to_proc'[p].file_name, g)
             /\ file_to_proc'[p].full_path =
                   PathJoin("repo_path", file_to_proc'[p].file_name)
             /\ UNCHANGED dirs
             /\ jobs' = jobs
             /\ job_counter' = job_counter]_vars

C15_Witness ==
    /\ pc[1] = "create_job"
    /\ reverse_time_order[1]
    /\ file_to_proc[1].file_name = <<2>>
    /\ {<<1, 2>>, <<2>>} \subseteq repo_path
    /\ DirNames \subseteq repo_path

StageOrder == <<"get_first_available_file", "create_job", "import_feed_file",
                "move_file", "create_process_doc", "update_job">>

CallNames(p) == [i \in 1..Len(trace[p]) |-> trace[p][i].call]

\* C16: the calls of one invocation are always an initial part of the order
\* selection, create_job, import_feed_file, move_file, create_process_doc,
\* update_job, followed by the cleanup step once the invocation has left the
\* try block; when the transformer is about to start, the job record is in
\* the store with status 'processing'; move_file is never called before the
\* transformer has returned its summary.
C16_StageOrder ==
    \A p \in Procs :
        /\ \E k \in 0..Len(StageOrder) :
              \/ CallNames(p) = SubSeq(StageOrder, 1, k)
              \/ CallNames(p) = Append(SubSeq(StageOrder, 1, k), "clean_file_process_q")
        /\ pc[p] = "import_feed_file"
              => /\ job_id[p] \in DOMAIN jobs
                 /\ jobs[job_id[p]].input_processor.status = "processing"
        /\ Count(trace[p], "import_feed_file") > 0 => job_id[p] \in DOMAIN jobs
        /\ Count(trace[p], "move_file") > 0
              => /\ summary[p] # NoneV
                 /\ Count(trace[p], "import_feed_file") = 1
                 /\ local_err[p] # Exc("import_feed_file")

C16_Witness ==
    \E p \in Procs :
        /\ Returned(p)
        /\ local_err[p] = NoneV
        /\ CallNames(p) = Append(StageOrder, "clean_file_process_q")

C18_Claim ==
    \A p \in Procs :
        (job_id[p] \in DOMAIN jobs /\ Count(trace[p], "update_job") = 0)
        => /\ jobs[job_id[p]] =
                 InitialPayload(file_to_proc[p].file_name, start_proc_file_time[p])
           /\ jobs[job_id[p]].input_processor.status = "processing"
           /\ DOMAIN jobs[job_id[p]].input_processor = {"start_time", "status"}

\* The files the pending directory held at the start: none arrives, none is
\* deleted, and the two terminal directories start empty.
InitialFiles == RegularFiles \cup ok_path \cup err_path

JobsFor(f) == {id \in DOMAIN jobs : jobs[id].file = f}

\* C19: serialized invocations on a pending directory that initially holds n
\* files and receives no new ones, no move_file call having failed: once n
\* invocations have returned the pending directory holds no file and every
\* initial file has exactly one job record; every invocation after the n-th
\* returns None and creates no job record.
C19_Claim ==
    LET n == Cardinality(InitialFiles)
    IN  (Returned(1) /\ ~move_failed /\ runs >= n)
        => /\ RegularFiles = {}
           /\ \A f \in InitialFiles : Cardinality(JobsFor(f)) = 1
           /\ runs > n => /\ result[1] = NoneV
                          /\ Cardinality(DOMAIN jobs) = n

TerminalDirsHolding(f) ==
    {d \in {"ok_path", "err_path"} :
        f \in (IF d = "ok_path" THEN ok_path ELSE err_path)}

\* C20: when two invocations that selected the same file have both returned,
\* at most one of their move_file calls returned True and the file is in
\* exactly one of the two terminal directories; each invocation has its own
\* job record, finalized through update_job with status 'finished' or 'error',
\* and each returned a result naming the file.
C20_Claim ==
    \A p \in Procs : \A q \in Procs \ {p} :
        (/\ Returned(p) /\ Returned(q)
         /\ Selected(p) /\ Selected(q)
         /\ file_to_proc[p].file_name = file_to_proc[q].file_name)
        => /\ ~(moved[p] /\ moved[q])
           /\ Cardinality(TerminalDirsHolding(file_to_proc[p].file_name)) = 1
           /\ job_id[p] # job_id[q]
           /\ \A r \in {p, q} :
                 /\ job_id[r] \in DOMAIN jobs
                 /\ Count(trace[r], "update_job") = 1
                 /\ jobs[job_id[r]].input_processor.status \in {"finished", "error"}
                 /\ result[r] # NoneV
                 /\ result[r].file_name = file_to_proc[p].file_name

IngestDone == ingest_pc = "done"

StatusOf(r) == IF "status" \in DOMAIN r THEN r.status ELSE 0

RECURSIVE RowsOf(_)
RowsOf(evs) ==
    IF evs = << >> THEN << >> ELSE <<InsertRow(Head(evs))>> \o RowsOf(Tail(evs))

\* the events of the array on which validate_event returns no error
PassingEvents(events) ==
    SelectSeq(events, LAMBDA e : validate_event_raises(e) = "none"
                                 /\ validate_event(e) = << >>)

\* C21: when /ingest/events has answered a request whose body is a non-empty
\* list, the connection is back in the pool and either every event that
\* passes validate_event is committed to the table, the response is 201 (no
\* rejected event) or 207 (some rejected event) and inserted + rejected is the
\* number of events submitted, or a database call raised, the table is what
\* it was before the request and the response is 500.
C21_Claim ==
    (IngestDone /\ IsList(request_json) /\ request_json.v # << >>)
    => /\ pool_idle = PoolSize
       /\ txn = << >>
       /\ \/ /\ StatusOf(response) \in {201, 207}
             /\ events_table = table_at_start \o RowsOf(PassingEvents(request_json.v))
             /\ (StatusOf(response) = 201) <=> (response.rejected = 0)
             /\ response.inserted + response.rejected = Len(request_json.v)
          \/ /\ db_error
             /\ StatusOf(response) = 500
             /\ events_table = table_at_start

====
